---- MODULE Spec2Model ----
(***************************************************************************)
(* State-machine model of src/script.js, the client-side script of the     *)
(* Duly Noted landing page.  The script is one IIFE that runs once at page *)
(* load, installs event listeners, and afterwards only reacts to events.   *)
(* Init is the state right after the IIFE has run (to its end, or up to    *)
(* the statement that threw); every action is one browser event together   *)
(* with the whole listener that the script installed for it.               *)
(***************************************************************************)
EXTENDS Integers, Sequences, FiniteSets, TLC

\* ------------------------------------------------------------------ bounds
\* Toggle clicks followed by the history counter `clicks`.
MaxClicks == 4
\* requestAnimationFrame callbacks that may be pending at once.
MaxRaf == 2
\* Intersection entries that may be queued before the observer callback runs.
MaxEntries == 3

\* Widest gallery content, in layout units.
MaxScrollWidth == 6

\* --------------------------------------------------------------- constants
\* JavaScript null (localStorage.getItem of a missing key, a removed
\* attribute, an unset element reference).
NULL == "null"

\* A stored preference / data-theme attribute value; NULL is system mode.
Themes == {NULL, "light", "dark"}

\* The three icons inside the toggle button.
Icons == {"sun", "moon", "system"}

VARIABLES
  \* ---- environment, fixed at page load
  storageAvailable,  \* FALSE: every localStorage access throws
  hasToggleBtn,      \* document.querySelector('#theme-toggle') found it
  iconsPresent,      \* all three .theme-icon-* elements were found
  \* ---- theme
  stored,            \* localStorage['dn-theme'] (NULL = key absent)
  dataTheme,         \* <html data-theme> (NULL = attribute absent)
  active,            \* icons that carry the 'active' class
  \* ---- script life cycle
  aborted,           \* the IIFE stopped at an uncaught exception
  threw,             \* some script code has thrown an uncaught exception
  lastEvent,         \* the event handled by the last step
  \* ---- lightbox: page content
  domLightbox,       \* the page has #lightbox
  domLightboxImg,    \* ... with a .lightbox-img inside
  domLightboxClose,  \* ... with a .lightbox-close inside
  \* ---- lightbox: script state
  lightbox,          \* script variable: element found (line 295)
  lightboxImg,       \* script variable: element found (line 296)
  lightboxClose,     \* script variable: element found (line 297)
  wired,             \* the listeners of lines 370-408 are installed
  lightboxTrigger,   \* script variable (line 300): a thumbnail or NULL
  hidden,            \* #lightbox carries the hidden attribute
  bodyOpen,          \* <body> carries the class lightbox-open
  imgSrc,            \* src of .lightbox-img
  imgAlt,            \* alt of .lightbox-img
  tabindex,          \* thumbnails that were given tabindex="0"
  focus,             \* document.activeElement
  focusBy,           \* who moved focus last: "browser" or "script"
  rafPending,        \* requestAnimationFrame callbacks not yet run
  \* ---- reveal on view
  hasIO,             \* 'IntersectionObserver' in window
  animationObserver, \* the observer of line 225 was created
  observed,          \* elements the observer is watching
  visibleCls,        \* elements that carry the class 'visible'
  inView,            \* per element: the browser finds it intersecting
  ioQueue,           \* entries queued for the observer callback
  \* ---- page scroll: anchors and navigation bar
  hasNav,            \* document.querySelector('.nav') found it
  scrollY,           \* window.scrollY
  navScrolled,       \* .nav carries the class nav-scrolled
  scrollToTop,       \* <<top>> of the last window.scrollTo call (<<>> = none)
  defaultPrevented,  \* the last anchor click had preventDefault() called
  \* ---- integration badges
  readyState,        \* document.readyState
  badgeText,         \* textContent of each .integration-badge
  badgeClass,        \* the badge carries the class badge-available
  \* ---- screenshot galleries
  clientWidth,       \* gallery.clientWidth, per gallery
  scrollWidth,       \* gallery.scrollWidth
  scrollLeft,        \* gallery.scrollLeft
  hasScrollLeft,     \* the gallery carries the class has-scroll-left
  hasScrollRight,    \* the gallery carries the class has-scroll-right
  \* ---- history (not program state)
  lastGallery,       \* the gallery that received the last scroll event
  badgeHtml,         \* the badge carried badge-available in the markup
  passes,            \* times colourIntegrationBadges has run
  lastHref,          \* href of the anchor clicked last (NULL = none)
  reveals,           \* per element: times 'visible' went from absent to present
  loadStored,        \* value of `stored` when the page loaded
  clicks,            \* toggle activations since page load
  openedBy           \* thumbnail whose activation last opened the lightbox

themeState == <<storageAvailable, hasToggleBtn, iconsPresent, stored, dataTheme,
                active, aborted, loadStored, clicks>>

themeVars == <<themeState, threw>>

lbVars == <<domLightbox, domLightboxImg, domLightboxClose, lightbox,
            lightboxImg, lightboxClose, wired, lightboxTrigger, hidden,
            bodyOpen, imgSrc, imgAlt, tabindex, focus, focusBy, rafPending,
            openedBy>>

revealVars == <<hasIO, animationObserver, observed, visibleCls, inView, ioQueue,
                reveals>>

scrollVars == <<hasNav, scrollY, navScrolled, scrollToTop, defaultPrevented,
                lastHref>>

badgeVars == <<readyState, badgeText, badgeClass, badgeHtml, passes>>

galleryVars == <<clientWidth, scrollWidth, scrollLeft, hasScrollLeft,
                 hasScrollRight, lastGallery>>

pageVars == <<scrollVars, badgeVars, galleryVars>>

vars == <<themeVars, lbVars, revealVars, pageVars, lastEvent>>

\* ------------------------------------------------------------------ theme

\* getStoredTheme (script.js 29-31) returns the stored value; the access
\* itself throws when storage is unavailable.
getStoredThrows == ~storageAvailable

getStoredTheme_MissingAsLight == IF stored = NULL THEN "light" ELSE stored

getStoredTheme == stored

nextTheme_DarkToLight(current) ==
  IF current = NULL THEN "light"
  ELSE IF current = "light" THEN "dark"
  ELSE "light"

\* nextTheme (script.js 86-90): system -> light -> dark -> system.
nextTheme(current) ==
  IF current = NULL THEN "light"
  ELSE IF current = "light" THEN "dark"
  ELSE NULL

applyTheme_StoresSystem(theme) ==
  IF theme = "light" THEN [attr |-> "light", key |-> "light"]
  ELSE IF theme = "dark" THEN [attr |-> "dark", key |-> "dark"]
  ELSE [attr |-> NULL, key |-> "system"]

\* applyTheme (script.js 39-53) with storage working: the attribute and the
\* storage key both take the theme ('light', 'dark') or are both removed.
applyTheme(theme) ==
  IF theme = "light" THEN [attr |-> "light", key |-> "light"]
  ELSE IF theme = "dark" THEN [attr |-> "dark", key |-> "dark"]
  ELSE [attr |-> NULL, key |-> NULL]

iconFor(theme) ==
  IF theme = "light" THEN "sun"
  ELSE IF theme = "dark" THEN "moon"
  ELSE "system"

updateThemeIcon_NoRemove(theme, present, act) ==
  IF ~present THEN act ELSE act \cup {iconFor(theme)}

\* updateThemeIcon (script.js 62-78): returns the new set of active icons.
\* With an icon missing it returns early; otherwise it removes 'active' from
\* all three and adds it to the one matching the theme.
updateThemeIcon(theme, present, act) ==
  IF ~present THEN act
  ELSE (((act \ {"sun"}) \ {"moon"}) \ {"system"}) \cup {iconFor(theme)}

\* The inline script in <head> of index.html (script.js 92-94 refers to it):
\* it has applied the stored preference as data-theme before script.js runs.
headInlineTheme(avail, key) == IF avail THEN key ELSE NULL

\* Statement at script.js 95-104 threw: line 96 calls getStoredTheme().
initThemeThrows(btn, avail) == btn /\ ~avail

\* The click listener of line 98 was installed.
toggleInstalled == hasToggleBtn /\ ~aborted

\* The media-query listener of lines 118-123 was installed.
schemeListenerInstalled == ~aborted

InitTheme ==
  /\ storageAvailable \in BOOLEAN
  /\ hasToggleBtn \in BOOLEAN
  /\ iconsPresent \in BOOLEAN
  /\ stored \in (IF storageAvailable THEN Themes ELSE {NULL})
  /\ dataTheme = headInlineTheme(storageAvailable, stored)
  /\ aborted = initThemeThrows(hasToggleBtn, storageAvailable)
  /\ threw = aborted
  /\ \E html \in SUBSET Icons :
       active = IF hasToggleBtn /\ storageAvailable
                THEN updateThemeIcon(getStoredTheme, iconsPresent, html)
                ELSE html
  /\ loadStored = stored
  /\ clicks = 0

\* A click on #theme-toggle (script.js 98-103).  Without the listener the
\* click only counts as an activation.
ToggleClick ==
  /\ hasToggleBtn
  /\ clicks < MaxClicks
  /\ clicks' = clicks + 1
  /\ lastEvent' = "toggle"
  /\ IF toggleInstalled
     THEN IF getStoredThrows
          THEN /\ threw' = TRUE
               /\ UNCHANGED <<stored, dataTheme, active>>
          ELSE LET next == nextTheme(getStoredTheme)
                   ap == applyTheme(next)
               IN /\ dataTheme' = ap.attr
                  /\ stored' = ap.key
                  /\ active' = updateThemeIcon(next, iconsPresent, active)
                  /\ UNCHANGED threw
     ELSE UNCHANGED <<stored, dataTheme, active, threw>>
  /\ UNCHANGED <<storageAvailable, hasToggleBtn, iconsPresent, aborted, loadStored>>
  /\ UNCHANGED lbVars
  /\ UNCHANGED revealVars
  /\ UNCHANGED pageVars

handleSystemColorSchemeChange_Always(act) ==
  updateThemeIcon(NULL, iconsPresent, act)

\* handleSystemColorSchemeChange (111-116) with storage working: the new set
\* of active icons.  It acts only in system mode.
handleSystemColorSchemeChange(act) ==
  IF getStoredTheme = NULL
  THEN updateThemeIcon(NULL, iconsPresent, act)
  ELSE act

\* The OS colour scheme changed: the listener of lines 118-123 runs.
SchemeChange ==
  /\ schemeListenerInstalled
  /\ lastEvent' = "schemechange"
  /\ IF getStoredThrows
     THEN /\ threw' = TRUE
          /\ UNCHANGED active
     ELSE /\ active' = handleSystemColorSchemeChange(active)
          /\ UNCHANGED threw
  /\ UNCHANGED <<storageAvailable, hasToggleBtn, iconsPresent, stored, dataTheme,
                 aborted, loadStored, clicks>>
  /\ UNCHANGED lbVars
  /\ UNCHANGED revealVars
  /\ UNCHANGED pageVars

\* --------------------------------------------------------------- lightbox

\* The '.screenshot-frame img' thumbnails of the page (line 370).
Thumbs == {"thumbA", "thumbB"}

\* Each thumbnail's src and alt; thumbB has no alt text.
thumbSrc(t) == IF t = "thumbA" THEN "a.png" ELSE "b.png"

thumbAlt(t) == IF t = "thumbA" THEN "Shot A" ELSE ""

\* Keys pressed on a focused thumbnail that the document handler ignores.
ThumbKeys == {"Enter", " ", "a"}

\* What a pointer click inside the visible modal can hit.
ModalParts == {"lightbox", "img", "close"}

lightboxWiringGuard_ContainerOnly(lb, img, close) == lb

\* The guard of line 367.
lightboxWiringGuard(lb, img, close) == lb /\ img /\ close

InitLightbox ==
  /\ domLightbox \in BOOLEAN
  /\ domLightboxImg \in BOOLEAN
  /\ domLightboxClose \in BOOLEAN
  /\ (~domLightbox) => (~domLightboxImg /\ ~domLightboxClose)
  \* lines 295-297, never reached when the IIFE aborted before
  /\ lightbox = (~aborted /\ domLightbox)
  /\ lightboxImg = (lightbox /\ domLightboxImg)
  /\ lightboxClose = (lightbox /\ domLightboxClose)
  /\ lightboxTrigger = NULL
  /\ wired = (~aborted /\ lightboxWiringGuard(lightbox, lightboxImg, lightboxClose))
  \* lines 372-375
  /\ tabindex = IF wired THEN Thumbs ELSE {}
  \* the markup of the modal carries `hidden` (lines 276-279)
  /\ hidden = TRUE
  /\ bodyOpen = FALSE
  /\ imgSrc = ""
  /\ imgAlt = ""
  /\ focus = "body"
  /\ focusBy = "browser"
  /\ rafPending = 0
  /\ openedBy = NULL

lbEnv == <<domLightbox, domLightboxImg, domLightboxClose, lightbox,
           lightboxImg, lightboxClose, wired, tabindex>>

openLightbox_NoDeferredFocus(imgEl) ==
  IF ~lightbox \/ ~lightboxImg \/ ~lightboxClose
  THEN UNCHANGED <<imgSrc, imgAlt, lightboxTrigger, hidden, bodyOpen, rafPending>>
  ELSE /\ imgSrc' = thumbSrc(imgEl)
       /\ imgAlt' = (IF thumbAlt(imgEl) # "" THEN thumbAlt(imgEl) ELSE "")
       /\ lightboxTrigger' = imgEl
       /\ hidden' = FALSE
       /\ bodyOpen' = TRUE
       /\ UNCHANGED rafPending

\* openLightbox (lines 307-324); the focus move is deferred to RafFire.
openLightbox(imgEl) ==
  IF ~lightbox \/ ~lightboxImg \/ ~lightboxClose
  THEN UNCHANGED <<imgSrc, imgAlt, lightboxTrigger, hidden, bodyOpen, rafPending>>
  ELSE /\ imgSrc' = thumbSrc(imgEl)
       /\ imgAlt' = (IF thumbAlt(imgEl) # "" THEN thumbAlt(imgEl) ELSE "")
       /\ lightboxTrigger' = imgEl
       /\ hidden' = FALSE
       /\ bodyOpen' = TRUE
       /\ rafPending' = rafPending + 1

closeLightbox_NoRefocus(cur) ==
  IF ~lightbox
  THEN /\ focus' = cur
       /\ focusBy' = "browser"
       /\ UNCHANGED <<hidden, bodyOpen, lightboxTrigger>>
  ELSE /\ hidden' = TRUE
       /\ bodyOpen' = FALSE
       /\ focus' = (IF cur = "close" THEN "body" ELSE cur)
       /\ focusBy' = "browser"
       /\ lightboxTrigger' = NULL

closeLightbox_KeepsTrigger(cur) ==
  IF ~lightbox
  THEN /\ focus' = cur
       /\ focusBy' = "browser"
       /\ UNCHANGED <<hidden, bodyOpen, lightboxTrigger>>
  ELSE /\ hidden' = TRUE
       /\ bodyOpen' = FALSE
       /\ IF lightboxTrigger # NULL
          THEN /\ focus' = lightboxTrigger
               /\ focusBy' = "script"
               /\ UNCHANGED lightboxTrigger
          ELSE /\ focus' = (IF cur = "close" THEN "body" ELSE cur)
               /\ focusBy' = "browser"
               /\ UNCHANGED lightboxTrigger

\* closeLightbox (lines 329-341); cur is the focused element when it runs.
\* Hiding the modal while its close control has focus and no trigger is
\* recorded leaves focus on the body.
closeLightbox(cur) ==
  IF ~lightbox
  THEN /\ focus' = cur
       /\ focusBy' = "browser"
       /\ UNCHANGED <<hidden, bodyOpen, lightboxTrigger>>
  ELSE /\ hidden' = TRUE
       /\ bodyOpen' = FALSE
       /\ IF lightboxTrigger # NULL
          THEN /\ focus' = lightboxTrigger
               /\ focusBy' = "script"
               /\ lightboxTrigger' = NULL
          ELSE /\ focus' = (IF cur = "close" THEN "body" ELSE cur)
               /\ focusBy' = "browser"
               /\ UNCHANGED lightboxTrigger

\* trapFocus (lines 350-364): TRUE when it cancels the key's default action
\* and calls lightboxClose.focus().
trapFocus(key) ==
  IF ~lightbox \/ hidden THEN FALSE
  ELSE IF key # "Tab" THEN FALSE
  ELSE focus # "close"

\* Elements the browser's own Tab / Shift+Tab navigation can move focus to:
\* every focusable element that is rendered ("other" is any focusable element
\* of the page outside the modal); "body" stands for focus leaving the
\* document.
TabTargets ==
  {"body", "other"} \cup tabindex
    \cup (IF domLightboxClose /\ ~hidden THEN {"close"} ELSE {})

\* A pointer click on thumbnail t (listener of lines 376-378).  The browser
\* focuses a clicked element that has a tabindex, else the body.
ThumbClick(t) ==
  /\ rafPending < MaxRaf
  /\ lastEvent' = "thumbClick"
  /\ focus' = (IF t \in tabindex THEN t ELSE "body")
  /\ focusBy' = "browser"
  /\ IF wired
     THEN /\ openLightbox(t)
          /\ openedBy' = (IF hidden' THEN openedBy ELSE t)
     ELSE UNCHANGED <<imgSrc, imgAlt, lightboxTrigger, hidden, bodyOpen,
                      rafPending, openedBy>>
  /\ UNCHANGED lbEnv
  /\ UNCHANGED themeVars
  /\ UNCHANGED revealVars
  /\ UNCHANGED pageVars

\* A key pressed while thumbnail t has focus (listener of lines 381-386);
\* the event then bubbles to the document listener, which ignores these keys.
\* lastEvent tells the activating keys (Enter, Space) from any other key.
ThumbKey(t, key) ==
  /\ focus = t
  /\ rafPending < MaxRaf
  /\ lastEvent' = (IF key = "Enter" \/ key = " " THEN "thumbKey"
                   ELSE "thumbKeyOther")
  /\ IF wired /\ (key = "Enter" \/ key = " ")
     THEN /\ openLightbox(t)
          /\ openedBy' = (IF hidden' THEN openedBy ELSE t)
     ELSE UNCHANGED <<imgSrc, imgAlt, lightboxTrigger, hidden, bodyOpen,
                      rafPending, openedBy>>
  /\ UNCHANGED <<focus, focusBy>>
  /\ UNCHANGED lbEnv
  /\ UNCHANGED themeVars
  /\ UNCHANGED revealVars
  /\ UNCHANGED pageVars

backdropCloses_AnyTarget(target) == TRUE

\* The test of line 395: only a click on the container itself closes.
backdropCloses(target) == target = "lightbox"

\* A pointer click inside the visible modal (listeners of lines 390-398).
\* The browser first moves focus to the clicked element if it is focusable
\* (the close control), else to the body.
ModalClick(target) ==
  /\ ~hidden
  /\ CASE target = "lightbox" -> domLightbox
       [] target = "img" -> domLightboxImg
       [] target = "close" -> domLightboxClose
  /\ lastEvent' = (CASE target = "lightbox" -> "backdropClick"
                     [] target = "img" -> "imageClick"
                     [] target = "close" -> "closeClick")
  /\ LET cur == IF target = "close" THEN "close" ELSE "body"
     IN IF wired /\ (target = "close" \/ backdropCloses(target))
        THEN closeLightbox(cur)
        ELSE /\ focus' = cur
             /\ focusBy' = "browser"
             /\ UNCHANGED <<hidden, bodyOpen, lightboxTrigger>>
  /\ UNCHANGED <<imgSrc, imgAlt, rafPending, openedBy>>
  /\ UNCHANGED lbEnv
  /\ UNCHANGED themeVars
  /\ UNCHANGED revealVars
  /\ UNCHANGED pageVars

\* The Escape key, anywhere (document listener, lines 401-405); lastEvent
\* tells a press while the modal is visible from one while it is hidden.
KeyEscape ==
  /\ lastEvent' = (IF hidden THEN "escapeIdle" ELSE "escape")
  /\ IF wired /\ ~hidden
     THEN closeLightbox(focus)
     ELSE UNCHANGED <<hidden, bodyOpen, lightboxTrigger, focus, focusBy>>
  /\ UNCHANGED <<imgSrc, imgAlt, rafPending, openedBy>>
  /\ UNCHANGED lbEnv
  /\ UNCHANGED themeVars
  /\ UNCHANGED revealVars
  /\ UNCHANGED pageVars

\* Tab or Shift+Tab, anywhere (document listener, lines 401-408).  Unless
\* trapFocus cancels it, the browser moves focus to another element.
KeyTab ==
  /\ lastEvent' = "tab"
  /\ IF wired /\ trapFocus("Tab")
     THEN /\ focus' = "close"
          /\ focusBy' = "script"
     ELSE /\ focus' \in (TabTargets \ {focus})
          /\ focusBy' = "browser"
  /\ UNCHANGED <<hidden, bodyOpen, lightboxTrigger, imgSrc, imgAlt, rafPending,
                 openedBy>>
  /\ UNCHANGED lbEnv
  /\ UNCHANGED themeVars
  /\ UNCHANGED revealVars
  /\ UNCHANGED pageVars

RafFire_FocusesHiddenControl ==
  /\ rafPending > 0
  /\ rafPending' = rafPending - 1
  /\ lastEvent' = "raf"
  /\ focus' = "close"
  /\ focusBy' = "script"
  /\ UNCHANGED <<hidden, bodyOpen, lightboxTrigger, imgSrc, imgAlt, openedBy>>
  /\ UNCHANGED lbEnv
  /\ UNCHANGED themeVars
  /\ UNCHANGED revealVars
  /\ UNCHANGED pageVars

\* The deferred callback of lines 321-323 runs.  focus() on an element that
\* is not rendered (inside the hidden modal) does nothing.
RafFire ==
  /\ rafPending > 0
  /\ rafPending' = rafPending - 1
  /\ lastEvent' = "raf"
  /\ IF ~hidden
     THEN /\ focus' = "close"
          /\ focusBy' = "script"
     ELSE UNCHANGED <<focus, focusBy>>
  /\ UNCHANGED <<hidden, bodyOpen, lightboxTrigger, imgSrc, imgAlt, openedBy>>
  /\ UNCHANGED lbEnv
  /\ UNCHANGED themeVars
  /\ UNCHANGED revealVars
  /\ UNCHANGED pageVars

\* ----------------------------------------------------------- reveal on view

\* Elements matching ANIMATION_SELECTORS (lines 209-216, 234).
Targets == {"card1", "card2"}

\* The CSS contract stated at lines 196-206: a reveal target is rendered
\* with opacity 0 unless it carries the class 'visible'.
shown(t) == t \in visibleCls

entryStep_NoUnobserve(entry, st) ==
  IF entry.isIntersecting
  THEN [obs |-> st.obs,
        vis |-> st.vis \cup {entry.target},
        added |-> IF entry.target \in st.vis THEN st.added
                  ELSE st.added \cup {entry.target}]
  ELSE st

\* The body of the forEach of lines 226-231 for one entry: st.obs are the
\* observed elements, st.vis those with the class, st.added those to which
\* this callback run added the class.
entryStep(entry, st) ==
  IF entry.isIntersecting
  THEN [obs |-> st.obs \ {entry.target},
        vis |-> st.vis \cup {entry.target},
        added |-> IF entry.target \in st.vis THEN st.added
                  ELSE st.added \cup {entry.target}]
  ELSE st

\* The observer callback (lines 225-232) over the queued entries, in order.
RECURSIVE observerCallback(_, _)
observerCallback(entries, st) ==
  IF entries = <<>> THEN st
  ELSE observerCallback(Tail(entries), entryStep(Head(entries), st))

\* The entry the browser queues for element t.
entryOf(t, isect) == [target |-> t, isIntersecting |-> isect]

InitReveal ==
  /\ hasIO \in BOOLEAN
  /\ inView \in [Targets -> BOOLEAN]
  \* line 224, never reached when the IIFE aborted before
  /\ animationObserver = (~aborted /\ hasIO)
  \* lines 234-238; observing an element queues its first entry
  /\ observed = IF animationObserver THEN Targets ELSE {}
  /\ ioQueue = IF animationObserver
               THEN <<entryOf("card1", inView["card1"]),
                      entryOf("card2", inView["card2"])>>
               ELSE <<>>
  /\ visibleCls = {}
  /\ reveals = [t \in Targets |-> 0]

\* Scrolling or resizing moves element t into or out of the viewport; for a
\* watched element the browser queues an entry.
ViewportChange(t) ==
  /\ inView' = [inView EXCEPT ![t] = ~inView[t]]
  /\ lastEvent' = "viewport"
  /\ IF t \in observed
     THEN /\ Len(ioQueue) < MaxEntries
          /\ ioQueue' = Append(ioQueue, entryOf(t, ~inView[t]))
     ELSE UNCHANGED ioQueue
  /\ UNCHANGED <<hasIO, animationObserver, observed, visibleCls, reveals>>
  /\ UNCHANGED themeVars
  /\ UNCHANGED lbVars
  /\ UNCHANGED pageVars

\* The browser delivers the queued entries to the callback of line 225.
IntersectionCallback ==
  /\ animationObserver
  /\ ioQueue # <<>>
  /\ lastEvent' = "intersection"
  /\ LET r == observerCallback(ioQueue, [obs |-> observed, vis |-> visibleCls,
                                         added |-> {}])
     IN /\ observed' = r.obs
        /\ visibleCls' = r.vis
        /\ reveals' = [t \in Targets |->
                         IF t \in r.added THEN reveals[t] + 1 ELSE reveals[t]]
  /\ ioQueue' = <<>>
  /\ UNCHANGED <<hasIO, animationObserver, inView>>
  /\ UNCHANGED themeVars
  /\ UNCHANGED lbVars
  /\ UNCHANGED pageVars

\* ------------------------------------------------------------ page scroll

\* px height of the fixed navigation bar (line 150).
NAV_HEIGHT == 80

\* px of scroll before the navigation bar changes (line 169).
SCROLL_THRESHOLD == 50

\* Vertical scroll offsets the page can be at.
ScrollYs == {0, 40, 50, 51, 920, 1000}

\* href attributes of the page's anchors: empty, the bare '#', a fragment no
\* element answers to, a fragment that is no valid selector, and two
\* fragments of existing elements.
Hrefs == {"", "#", "#missing-id", "#2col", "#section-2", "#intro"}

\* The selector 'a[href^="#"]' of line 133 matches the anchor.
isAnchorLink(href) == href # ""

\* document.querySelector(hash) (line 143): an element, NULL, or a
\* SyntaxError for a string that is no selector.
querySelector(hash) ==
  CASE hash = "#section-2" -> "section-2"
    [] hash = "#intro" -> "intro"
    [] hash = "#2col" -> "SyntaxError"
    [] OTHER -> NULL

\* Document offset of an element's top edge.
documentTop(el) == IF el = "section-2" THEN 1000 ELSE 40

\* target.getBoundingClientRect().top (line 151): relative to the viewport.
boundingClientRectTop(el, y) == documentTop(el) - y

anchorTargetTop_NoScrollY(rectTop, y) == rectTop - NAV_HEIGHT

\* The computation of line 151.
anchorTargetTop(rectTop, y) == rectTop + y - NAV_HEIGHT

anchorClick_PreventsFirst(hash, y) ==
  IF hash = "" \/ hash = "#"
  THEN [prevented |-> TRUE, top |-> <<>>, throws |-> FALSE]
  ELSE IF querySelector(hash) = "SyntaxError"
  THEN [prevented |-> TRUE, top |-> <<>>, throws |-> TRUE]
  ELSE IF querySelector(hash) = NULL
  THEN [prevented |-> TRUE, top |-> <<>>, throws |-> FALSE]
  ELSE [prevented |-> TRUE,
        top |-> <<anchorTargetTop(boundingClientRectTop(querySelector(hash), y), y)>>,
        throws |-> FALSE]

\* The anchor click listener (lines 136-157) for an anchor with this href at
\* scroll offset y: whether it called preventDefault, the `top` it passed to
\* window.scrollTo (<<>>: no call), and whether it threw.
anchorClick(hash, y) ==
  IF hash = "" \/ hash = "#"
  THEN [prevented |-> FALSE, top |-> <<>>, throws |-> FALSE]
  ELSE IF querySelector(hash) = "SyntaxError"
  THEN [prevented |-> FALSE, top |-> <<>>, throws |-> TRUE]
  ELSE IF querySelector(hash) = NULL
  THEN [prevented |-> FALSE, top |-> <<>>, throws |-> FALSE]
  ELSE [prevented |-> TRUE,
        top |-> <<anchorTargetTop(boundingClientRectTop(querySelector(hash), y), y)>>,
        throws |-> FALSE]

\* Where the browser's own fragment navigation leaves the page when the
\* click was not cancelled: the bare '#' goes to the top, a fragment of an
\* existing element to that element, anything else nowhere.
defaultNavigation(hash, y) ==
  IF hash = "#" THEN 0
  ELSE IF hash \in {"#section-2", "#intro"}
  THEN documentTop(querySelector(hash))
  ELSE y

updateNavScrollState_Inclusive(y, cls) ==
  IF ~hasNav THEN cls ELSE (y >= SCROLL_THRESHOLD)

\* updateNavScrollState (lines 171-181): whether .nav carries nav-scrolled
\* afterwards, given the scroll offset and whether it carried it before.
updateNavScrollState(y, cls) ==
  IF ~hasNav THEN cls ELSE (y > SCROLL_THRESHOLD)

\* The listeners of lines 136 and 183 were installed.
scrollListenersInstalled == ~aborted

InitScroll ==
  /\ hasNav \in BOOLEAN
  /\ scrollY \in ScrollYs
  \* the class in the markup, then line 186 unless the IIFE aborted before
  /\ \E html \in (IF hasNav THEN BOOLEAN ELSE {FALSE}) :
       navScrolled = IF scrollListenersInstalled
                     THEN updateNavScrollState(scrollY, html)
                     ELSE html
  /\ scrollToTop = <<>>
  /\ defaultPrevented = FALSE
  /\ lastHref = NULL

\* The page scrolls to offset y (the user, or the animation of a scrollTo);
\* the scroll event runs updateNavScrollState (line 183).
Scroll(y) ==
  /\ y # scrollY
  /\ scrollY' = y
  /\ lastEvent' = "scroll"
  /\ navScrolled' = IF scrollListenersInstalled
                    THEN updateNavScrollState(y, navScrolled)
                    ELSE navScrolled
  /\ UNCHANGED <<hasNav, scrollToTop, defaultPrevented, lastHref>>
  /\ UNCHANGED <<themeVars, lbVars, revealVars, badgeVars, galleryVars>>

\* A click on an anchor with this href.  The listener runs if the anchor has
\* one; unless it cancelled the click the browser navigates to the fragment,
\* and a scroll it causes runs the scroll listener.
AnchorClick(href) ==
  LET listens == scrollListenersInstalled /\ isAnchorLink(href)
      r == anchorClick(href, scrollY)
      prevented == listens /\ r.prevented
      y2 == IF prevented THEN scrollY ELSE defaultNavigation(href, scrollY)
  IN /\ lastEvent' = "anchorClick"
     /\ lastHref' = href
     /\ defaultPrevented' = prevented
     /\ scrollToTop' = IF listens /\ r.top # <<>> THEN r.top ELSE scrollToTop
     /\ threw' = (threw \/ (listens /\ r.throws))
     /\ scrollY' = y2
     /\ navScrolled' = IF scrollListenersInstalled /\ y2 # scrollY
                       THEN updateNavScrollState(y2, navScrolled)
                       ELSE navScrolled
     /\ UNCHANGED hasNav
     /\ UNCHANGED <<themeState, lbVars, revealVars, badgeVars, galleryVars>>

\* ------------------------------------------------------- integration badges

Badges == {"badge1", "badge2"}

\* Characters trim() removes, as tokens of the text.
WhiteSpace == {" ", "\n"}

\* 'Available Now' (line 254), as tokens.
AvailableNow == <<"Available", " ", "Now">>

ComingSoon == <<"Coming", " ", "Soon">>

\* Badge texts of the page: the sentinel bare and padded, and near misses.
BadgeTexts ==
  { AvailableNow,
    <<" ">> \o AvailableNow \o <<" ">>,
    <<"\n", " ">> \o AvailableNow \o <<"\n">>,
    ComingSoon,
    <<"Available", " ", " ", "Now">>,
    <<"available", " ", "now">>,
    AvailableNow \o <<" ", "Beta">>,
    <<" ">> }

RECURSIVE trimStart(_)
trimStart(text) ==
  IF text # <<>> /\ Head(text) \in WhiteSpace
  THEN trimStart(Tail(text))
  ELSE text

RECURSIVE trimEnd(_)
trimEnd(text) ==
  IF text # <<>> /\ text[Len(text)] \in WhiteSpace
  THEN trimEnd(SubSeq(text, 1, Len(text) - 1))
  ELSE text

\* String.prototype.trim.
trim(text) == trimEnd(trimStart(text))

badgeMatches_NoTrim(text) == text = AvailableNow

\* The test of line 254.
badgeMatches(text) == trim(text) = AvailableNow

\* colourIntegrationBadges (lines 248-258): the classes after one pass over
\* badges with these texts and classes.
colourIntegrationBadges(text, cls) ==
  [b \in Badges |-> IF badgeMatches(text[b]) THEN TRUE ELSE cls[b]]

\* Lines 260-265 for a page in one of these ready states, with badge texts
\* and markup classes from these sets.
InitBadgesIn(readyStates, texts, htmlClasses) ==
  /\ readyState \in readyStates
  /\ badgeText \in [Badges -> texts]
  /\ badgeHtml \in [Badges -> htmlClasses]
  /\ LET ran == ~aborted /\ readyState # "loading"
     IN /\ badgeClass = IF ran
                        THEN colourIntegrationBadges(badgeText, badgeHtml)
                        ELSE badgeHtml
        /\ passes = IF ran THEN 1 ELSE 0

InitBadges == InitBadgesIn({"loading", "interactive"}, BadgeTexts, BOOLEAN)

\* One page: the script ran after parsing, no badge is available.
QuietBadges == InitBadgesIn({"interactive"}, {ComingSoon}, {FALSE})

\* The document finished parsing: DOMContentLoaded runs the listener of
\* line 261 if it was added.
DOMContentLoaded ==
  /\ readyState = "loading"
  /\ readyState' = "interactive"
  /\ lastEvent' = "DOMContentLoaded"
  /\ IF ~aborted
     THEN /\ badgeClass' = colourIntegrationBadges(badgeText, badgeClass)
          /\ passes' = passes + 1
     ELSE UNCHANGED <<badgeClass, passes>>
  /\ UNCHANGED <<badgeText, badgeHtml>>
  /\ UNCHANGED <<themeVars, lbVars, revealVars, scrollVars, galleryVars>>

\* ------------------------------------------------------ screenshot galleries

Galleries == {"gallery1", "gallery2"}

ClientWidths == {3, 4}

ScrollWidths == 4..MaxScrollWidth

\* gallery.scrollWidth - gallery.clientWidth (line 429).
maxScrollLeft(sw, cw) == sw - cw

updateScrollIndicators_NoTolerance(sl, sw, cw) ==
  [left |-> sl > 0, right |-> sl < maxScrollLeft(sw, cw)]

\* updateScrollIndicators (lines 427-433): the two classes it leaves on a
\* gallery at offset sl; classList.toggle with a force argument sets each
\* class from its condition alone.
updateScrollIndicators(sl, sw, cw) ==
  [left |-> sl > 0, right |-> sl < maxScrollLeft(sw, cw) - 1]

\* The listeners of lines 435 and 438 were installed.
galleryListenersInstalled == ~aborted

\* Lines 421-442 for galleries with widths and markup classes from these sets.
InitGalleryIn(clientWidths, scrollWidths, htmlClasses) ==
  /\ clientWidth \in [Galleries -> clientWidths]
  /\ scrollWidth \in [Galleries -> scrollWidths]
  /\ \E sl \in [Galleries -> 0..MaxScrollWidth] :
       /\ \A g \in Galleries :
            sl[g] <= maxScrollLeft(scrollWidth[g], clientWidth[g])
       /\ scrollLeft = sl
  /\ \E htmlLeft \in [Galleries -> htmlClasses],
        htmlRight \in [Galleries -> htmlClasses] :
       IF galleryListenersInstalled
       THEN /\ hasScrollLeft =
                 [g \in Galleries |->
                    updateScrollIndicators(scrollLeft[g], scrollWidth[g],
                                           clientWidth[g]).left]
            /\ hasScrollRight =
                 [g \in Galleries |->
                    updateScrollIndicators(scrollLeft[g], scrollWidth[g],
                                           clientWidth[g]).right]
       ELSE /\ hasScrollLeft = htmlLeft
            /\ hasScrollRight = htmlRight
  /\ lastGallery = NULL

InitGallery == InitGalleryIn(ClientWidths, ScrollWidths, BOOLEAN)

\* One page: no gallery overflows.
QuietGallery == InitGalleryIn({4}, {4}, {FALSE})

\* Gallery g scrolls horizontally to offset sl; its scroll listener runs.
GalleryScroll(g, sl) ==
  /\ sl # scrollLeft[g]
  /\ sl <= maxScrollLeft(scrollWidth[g], clientWidth[g])
  /\ scrollLeft' = [scrollLeft EXCEPT ![g] = sl]
  /\ lastEvent' = "galleryScroll"
  /\ lastGallery' = g
  /\ IF galleryListenersInstalled
     THEN LET r == updateScrollIndicators(sl, scrollWidth[g], clientWidth[g])
          IN /\ hasScrollLeft' = [hasScrollLeft EXCEPT ![g] = r.left]
             /\ hasScrollRight' = [hasScrollRight EXCEPT ![g] = r.right]
     ELSE UNCHANGED <<hasScrollLeft, hasScrollRight>>
  /\ UNCHANGED <<clientWidth, scrollWidth>>
  /\ UNCHANGED <<themeVars, lbVars, revealVars, scrollVars, badgeVars>>

\* The window is resized: the galleries get new client widths (the scroll
\* offsets stay within range) and every gallery's resize listener runs.
Resize ==
  \E cw \in [Galleries -> ClientWidths] :
    /\ cw # clientWidth
    /\ \A g \in Galleries : scrollLeft[g] <= maxScrollLeft(scrollWidth[g], cw[g])
    /\ clientWidth' = cw
    /\ lastEvent' = "resize"
    /\ IF galleryListenersInstalled
       THEN /\ hasScrollLeft' =
                 [g \in Galleries |->
                    updateScrollIndicators(scrollLeft[g], scrollWidth[g],
                                           cw[g]).left]
            /\ hasScrollRight' =
                 [g \in Galleries |->
                    updateScrollIndicators(scrollLeft[g], scrollWidth[g],
                                           cw[g]).right]
       ELSE UNCHANGED <<hasScrollLeft, hasScrollRight>>
    /\ UNCHANGED <<scrollWidth, scrollLeft, lastGallery>>
    /\ UNCHANGED <<themeVars, lbVars, revealVars, scrollVars, badgeVars>>

\* The content of gallery g changes width (an image finishes loading); no
\* event reaches the script.
ContentChange(g, sw) ==
  /\ sw # scrollWidth[g]
  /\ scrollLeft[g] <= maxScrollLeft(sw, clientWidth[g])
  /\ scrollWidth' = [scrollWidth EXCEPT ![g] = sw]
  /\ lastEvent' = "contentChange"
  /\ UNCHANGED <<clientWidth, scrollLeft, hasScrollLeft, hasScrollRight,
                 lastGallery>>
  /\ UNCHANGED <<themeVars, lbVars, revealVars, scrollVars, badgeVars>>

\* The features in one fixed environment each.
QuietTheme == iconsPresent /\ stored = NULL /\ active \subseteq {"system"}

QuietLightbox == domLightbox /\ domLightboxImg /\ domLightboxClose

QuietReveal == hasIO /\ (\A t \in Targets : ~inView[t])

QuietScroll == hasNav /\ scrollY = 0 /\ ~navScrolled

Init ==
  /\ InitTheme
  /\ InitLightbox
  /\ InitReveal
  /\ InitScroll
  /\ InitBadges
  /\ InitGallery
  /\ lastEvent = "load"

\* Init with the scroll, badge and gallery environments fixed.
InitCore ==
  /\ InitTheme
  /\ InitLightbox
  /\ InitReveal
  /\ InitScroll /\ QuietScroll
  /\ QuietBadges
  /\ QuietGallery
  /\ lastEvent = "load"

\* Init with the theme, lightbox and reveal environments fixed (storage and
\* the toggle button stay free: they decide whether the IIFE aborts).
InitForScroll ==
  /\ InitTheme /\ QuietTheme
  /\ InitLightbox /\ QuietLightbox
  /\ InitReveal /\ QuietReveal
  /\ InitScroll
  /\ QuietBadges
  /\ QuietGallery
  /\ lastEvent = "load"

InitForBadges ==
  /\ InitTheme /\ QuietTheme
  /\ InitLightbox /\ QuietLightbox
  /\ InitReveal /\ QuietReveal
  /\ InitScroll /\ QuietScroll
  /\ InitBadges
  /\ QuietGallery
  /\ lastEvent = "load"

InitForGallery ==
  /\ InitTheme /\ QuietTheme
  /\ InitLightbox /\ QuietLightbox
  /\ InitReveal /\ QuietReveal
  /\ InitScroll /\ QuietScroll
  /\ QuietBadges
  /\ InitGallery
  /\ lastEvent = "load"

NextTheme == ToggleClick \/ SchemeChange

NextLightbox ==
  \/ \E t \in Thumbs : ThumbClick(t)
  \/ \E t \in Thumbs, key \in ThumbKeys : ThumbKey(t, key)
  \/ \E target \in ModalParts : ModalClick(target)
  \/ KeyEscape
  \/ KeyTab
  \/ RafFire

NextReveal ==
  \/ \E t \in Targets : ViewportChange(t)
  \/ IntersectionCallback

NextScroll ==
  \/ \E y \in ScrollYs : Scroll(y)
  \/ \E href \in Hrefs : AnchorClick(href)

NextBadges == DOMContentLoaded

NextGallery ==
  \/ \E g \in Galleries, sl \in 0..MaxScrollWidth : GalleryScroll(g, sl)
  \/ Resize
  \/ \E g \in Galleries, sw \in ScrollWidths : ContentChange(g, sw)

Next ==
  \/ NextTheme
  \/ NextLightbox
  \/ NextReveal
  \/ NextScroll
  \/ NextBadges
  \/ NextGallery

Spec == Init /\ [][Next]_vars

\* The feature modules share no state (only the abort of the IIFE couples
\* them), so each is explored with the events of the others left out.
SpecTheme == InitCore /\ [][NextTheme]_vars

SpecLightbox == InitCore /\ [][NextLightbox]_vars

SpecReveal == InitCore /\ [][NextReveal]_vars

SpecScroll == InitForScroll /\ [][NextScroll]_vars

SpecBadges == InitForBadges /\ [][NextBadges]_vars

SpecGallery == InitForGallery /\ [][NextGallery]_vars

\* A requested animation frame callback is run by the browser's next frame.
SpecLightboxFair == SpecLightbox /\ WF_vars(RafFire)

\* ================================================================== claims

\* Events that the specification lists as closing the lightbox.
CloseEvents == {"closeClick", "backdropClick", "escape"}

AllLightboxPartsInPage == domLightbox /\ domLightboxImg /\ domLightboxClose

\* C1: with storage working, the toggle is a pure 3-cycle: after n toggle
\* activations the theme is back at the theme the page loaded with exactly
\* when n is a multiple of three (so three activations return to the start
\* and one or two never do).
ThemeThreeCycle ==
  (storageAvailable /\ hasToggleBtn) =>
    ((clicks % 3 = 0) <=> (stored = loadStored))

ThemeThreeCycleWitness ==
  /\ storageAvailable /\ hasToggleBtn
  /\ lastEvent = "toggle" /\ clicks = 3
  /\ loadStored = "dark" /\ stored = "dark"

\* C2: with storage working and the toggle and its three icons in the page,
\* after initialisation and after every event exactly one icon is active:
\* sun for light, moon for dark, the system icon for system.
ExactlyOneActiveIcon ==
  (storageAvailable /\ hasToggleBtn /\ iconsPresent) =>
    /\ Cardinality(active) = 1
    /\ (stored = "light") => (active = {"sun"})
    /\ (stored = "dark") => (active = {"moon"})
    /\ (stored = NULL) => (active = {"system"})

ExactlyOneActiveIconWitness ==
  /\ storageAvailable /\ hasToggleBtn /\ iconsPresent
  /\ lastEvent = "toggle" /\ stored = "dark" /\ active = {"moon"}

\* C3: with storage unavailable nothing throws, the other features are
\* installed as the page content allows, and the toggle still cycles the
\* theme (system, light, dark) for the session.
StorageUnavailableDegrades ==
  (~storageAvailable) =>
    /\ ~threw
    /\ wired = AllLightboxPartsInPage
    /\ animationObserver = hasIO
    /\ hasToggleBtn =>
         dataTheme = (CASE clicks % 3 = 0 -> NULL
                        [] clicks % 3 = 1 -> "light"
                        [] clicks % 3 = 2 -> "dark")

\* C4: right after page load with storage working, the display attribute is
\* the stored preference (absent for a missing key, "dark" for "dark",
\* "light" for "light") and the icon shown is the one of that theme.
InitialThemeFromStorage ==
  (lastEvent = "load" /\ storageAvailable) =>
    /\ (stored = NULL) => (dataTheme = NULL)
    /\ (stored = "dark") => (dataTheme = "dark")
    /\ (stored = "light") => (dataTheme = "light")
    /\ (hasToggleBtn /\ iconsPresent) =>
         /\ (stored = NULL) => (active = {"system"})
         /\ (stored = "dark") => (active = {"moon"})
         /\ (stored = "light") => (active = {"sun"})

InitialThemeFromStorageWitness ==
  /\ lastEvent = "load" /\ storageAvailable /\ hasToggleBtn /\ iconsPresent
  /\ stored = "dark" /\ dataTheme = "dark" /\ active = {"moon"}

\* C5: every step that closes the open lightbox by Escape, the close control
\* or a backdrop click ends with the modal hidden, focus on the thumbnail
\* whose activation opened it, and no trigger recorded.
CloseReturnsFocusToOpener ==
  [][(~hidden /\ lastEvent' \in CloseEvents) =>
       /\ hidden'
       /\ openedBy \in Thumbs
       /\ focus' = openedBy
       /\ lightboxTrigger' = NULL]_vars

CloseReturnsFocusToOpenerWitness ==
  /\ lastEvent = "backdropClick" /\ hidden
  /\ openedBy = "thumbB" /\ focus = "thumbB" /\ lightboxTrigger = NULL

\* C6: the open lightbox becomes hidden in a step only if that step is the
\* close control's activation, a click on the backdrop itself or Escape, each
\* of which does hide it; a click on the displayed image leaves it open and
\* leaves the recorded trigger as it was.
ClosesOnlyOnCloseEvents ==
  [][/\ (~hidden /\ hidden') => (lastEvent' \in CloseEvents)
     /\ (~hidden /\ lastEvent' \in CloseEvents) => hidden'
     /\ (~hidden /\ lastEvent' = "imageClick") =>
          (~hidden' /\ lightboxTrigger' = lightboxTrigger)]_vars

ClosesOnlyOnCloseEventsWitness ==
  /\ lastEvent = "imageClick" /\ ~hidden /\ lightboxTrigger = "thumbA"

\* C7: while the lightbox is open, after every Tab press focus is on the
\* close control.
TabKeepsFocusOnClose ==
  (lastEvent = "tab" /\ ~hidden) => (focus = "close")

\* C8: when the page lacks the modal container, its image or its close
\* control, nothing is wired: no thumbnail gets a tabindex, the modal state,
\* the recorded trigger and the modal image never change, no deferred focus
\* step is scheduled and the script never moves focus.
NoWiringWithoutAllParts ==
  (~AllLightboxPartsInPage) =>
    /\ ~wired
    /\ tabindex = {}
    /\ hidden /\ ~bodyOpen
    /\ lightboxTrigger = NULL
    /\ imgSrc = "" /\ imgAlt = ""
    /\ rafPending = 0
    /\ focusBy = "browser"

NoWiringWithoutAllPartsWitness ==
  /\ domLightbox /\ domLightboxClose /\ ~domLightboxImg
  /\ ~aborted
  /\ lastEvent = "thumbClick"

\* C9: reveal is one-shot and one-way.  A callback run that holds an entry
\* with the element in view leaves it revealed and unwatched; a revealed
\* element stays revealed and is not watched in any later state, whatever the
\* viewport does; an unwatched element is never watched again; the class is
\* added to an element at most once.
RevealOneShot ==
  [][\A t \in Targets :
       /\ (t \in visibleCls) => (t \in visibleCls' /\ t \notin observed')
       /\ (/\ lastEvent' = "intersection"
           /\ \E i \in 1..Len(ioQueue) : ioQueue[i] = entryOf(t, TRUE))
            => (t \in visibleCls' /\ t \notin observed')
       /\ (t \notin observed) => (t \notin observed')
       /\ reveals'[t] <= 1]_vars

RevealOneShotWitness ==
  /\ lastEvent = "viewport"
  /\ "card1" \in visibleCls /\ "card1" \notin observed
  /\ ~inView["card1"] /\ reveals["card1"] = 1

\* C10: without IntersectionObserver every reveal target is visible after
\* page load.
UnsupportedObserverKeepsVisible ==
  (~hasIO) => (\A t \in Targets : shown(t))

\* Events that activate a thumbnail.
OpenEvents == {"thumbClick", "thumbKey"}

\* C14: a colour-scheme change leaves storage and the display attribute as
\* they are; in light or dark mode it leaves the icons as they are too, and
\* in system mode (storage working, icons in the page) it ends with the
\* system icon as the only active one.
SchemeChangeFrame ==
  [][(lastEvent' = "schemechange") =>
       /\ stored' = stored
       /\ dataTheme' = dataTheme
       /\ (stored \in {"light", "dark"}) => (active' = active)
       /\ (storageAvailable /\ iconsPresent /\ stored = NULL) =>
            (active' = {"system"})]_vars

SchemeChangeFrameWitness ==
  /\ lastEvent = "schemechange" /\ storageAvailable /\ iconsPresent
  /\ clicks = 2 /\ stored = "dark" /\ dataTheme = "dark" /\ active = {"moon"}

\* C15: with storage working, right after a toggle activation the stored
\* preference and the display attribute hold the same theme: both "light",
\* both "dark", or both absent for system.
ToggleKeepsStorageAndAttribute ==
  (lastEvent = "toggle" /\ storageAvailable) =>
    /\ stored \in Themes
    /\ dataTheme = stored

ToggleKeepsStorageAndAttributeWitness ==
  /\ lastEvent = "toggle" /\ storageAvailable
  /\ loadStored = "dark" /\ clicks = 1 /\ stored = NULL /\ dataTheme = NULL

\* C17: a thumbnail activation (click, Enter, Space) on a wired page copies
\* the thumbnail's src and alt into the modal image, records it as trigger,
\* shows the modal and schedules one deferred step, with focus not yet on the
\* close control; and once opened, the lightbox is later closed or has focus
\* on the close control.
OpenLoadsImageThenFocusesLater ==
  /\ [][(wired /\ lastEvent' \in OpenEvents) =>
          /\ openedBy' \in Thumbs
          /\ imgSrc' = thumbSrc(openedBy')
          /\ imgAlt' = thumbAlt(openedBy')
          /\ lightboxTrigger' = openedBy'
          /\ ~hidden' /\ bodyOpen'
          /\ focus' = openedBy'
          /\ rafPending' = rafPending + 1]_vars
  /\ ((lastEvent \in OpenEvents /\ ~hidden) ~> (hidden \/ focus = "close"))

OpenLoadsImageThenFocusesLaterWitness ==
  /\ lastEvent = "raf" /\ ~hidden /\ focus = "close" /\ focusBy = "script"
  /\ lightboxTrigger = "thumbB" /\ imgSrc = "b.png" /\ imgAlt = ""

\* C19: in every state the modal is visible exactly when a trigger is
\* recorded and exactly when the body carries lightbox-open.
OpenTriggerBodyAgree ==
  /\ (~hidden) <=> (lightboxTrigger # NULL)
  /\ (~hidden) <=> bodyOpen

OpenTriggerBodyAgreeWitness ==
  /\ lastEvent = "escape" /\ hidden /\ lightboxTrigger = NULL /\ ~bodyOpen
  /\ openedBy = "thumbA"

UnresolvedHrefs == {"", "#", "#missing-id", "#2col"}

\* Anchors whose fragment names an element of the page.
ResolvedHrefs == {"#section-2", "#intro"}

\* C11: a click on an anchor whose fragment is empty, the bare '#', or names
\* an id no element has makes no window.scrollTo call and does not cancel
\* the browser's default navigation.
UnresolvedAnchorIgnored ==
  [][(lastEvent' = "anchorClick" /\ lastHref' \in UnresolvedHrefs) =>
       /\ scrollToTop' = scrollToTop
       /\ ~defaultPrevented']_vars

UnresolvedAnchorIgnoredWitness ==
  /\ lastEvent = "anchorClick"
  /\ lastHref = "#missing-id"
  /\ scrollListenersInstalled
  /\ scrollY = 920
  /\ ~defaultPrevented

\* C12: with the listeners installed, a click on an anchor whose fragment
\* names an existing element cancels the default navigation and requests a
\* scroll to the element's document offset minus 80, whatever the scroll
\* offset at the time of the click.
ResolvedAnchorScrollsBelowNav ==
  (lastEvent = "anchorClick" /\ scrollListenersInstalled
     /\ lastHref \in ResolvedHrefs) =>
    /\ defaultPrevented
    /\ scrollToTop = <<documentTop(querySelector(lastHref)) - 80>>

ResolvedAnchorScrollsBelowNavWitness ==
  /\ lastEvent = "anchorClick"
  /\ lastHref = "#section-2"
  /\ scrollY = 51
  /\ defaultPrevented
  /\ scrollToTop = <<920>>

\* C13: with the listeners installed and a navigation bar in the page, after
\* load and after every scroll event the bar carries nav-scrolled exactly
\* when the scroll offset is strictly greater than 50, whatever it carried
\* before.
NavScrolledIffPastThreshold ==
  (scrollListenersInstalled /\ hasNav) => (navScrolled <=> (scrollY > 50))

NavScrolledIffPastThresholdWitness ==
  /\ lastEvent = "scroll"
  /\ scrollListenersInstalled
  /\ hasNav
  /\ scrollY = 50
  /\ ~navScrolled

\* The text is 'Available Now' with nothing but white space around it.
IsPaddedAvailableNow(text) ==
  \E i \in 1..Len(text) :
    /\ i + 2 <= Len(text)
    /\ SubSeq(text, i, i + 2) = AvailableNow
    /\ \A k \in 1..Len(text) : (k < i \/ k > i + 2) => text[k] \in WhiteSpace

\* C16: once the badge pass has run, a badge carries badge-available exactly
\* when its text, white space around it aside, is 'Available Now' or the
\* markup already gave it the class (so other badges are as the markup left
\* them), and one more pass would change no badge.
BadgePassMarksAvailable ==
  (passes >= 1) =>
    /\ \A b \in Badges :
         badgeClass[b] <=> (IsPaddedAvailableNow(badgeText[b]) \/ badgeHtml[b])
    /\ colourIntegrationBadges(badgeText, badgeClass) = badgeClass

BadgePassMarksAvailableWitness ==
  /\ lastEvent = "DOMContentLoaded"
  /\ passes = 1
  /\ badgeText["badge1"] = <<" ">> \o AvailableNow \o <<" ">>
  /\ ~badgeHtml["badge1"]
  /\ badgeClass["badge1"]
  /\ badgeText["badge2"] = ComingSoon
  /\ ~badgeClass["badge2"]

\* The script handled an event of gallery g last: the initial computation,
\* a resize of the window, or a scroll of g.
IndicatorsFresh(g) ==
  \/ lastEvent \in {"load", "resize"}
  \/ lastEvent = "galleryScroll" /\ lastGallery = g

\* C18: with the listeners installed, after the initial computation and
\* after every gallery scroll or window resize a gallery carries
\* has-scroll-left exactly when its offset is greater than 0 and
\* has-scroll-right exactly when its offset is less than scroll width minus
\* client width minus 1, each class whatever the other is.
ScrollIndicatorsMatchOffset ==
  galleryListenersInstalled =>
    \A g \in Galleries :
      IndicatorsFresh(g) =>
        /\ hasScrollLeft[g] <=> (scrollLeft[g] > 0)
        /\ hasScrollRight[g] <=>
             (scrollLeft[g] < (scrollWidth[g] - clientWidth[g]) - 1)

ScrollIndicatorsMatchOffsetWitness ==
  /\ galleryListenersInstalled
  /\ lastEvent = "galleryScroll"
  /\ lastGallery = "gallery1"
  /\ scrollWidth["gallery1"] - clientWidth["gallery1"] = 3
  /\ scrollLeft["gallery1"] = 2
  /\ hasScrollLeft["gallery1"]
  /\ ~hasScrollRight["gallery1"]
  /\ hasScrollRight["gallery2"]
  /\ ~hasScrollLeft["gallery2"]

====
